---- MODULE Spec2Model ----
(***************************************************************************)
(* vtkvmtkMeshWallShearRate (vtkVmtk/Misc/vtkvmtkMeshWallShearRate.cxx).   *)
(*                                                                         *)
(* The filter takes an unstructured grid with a velocity point array,      *)
(* runs gradient estimation, boundary extraction and normal estimation,    *)
(* and writes one wall shear rate vector per surface point.                *)
(*                                                                         *)
(* Spec       : one RequestData pass of a configured filter instance.      *)
(*              RequestData is one sequential call; it is cut at the head  *)
(*              of its per-point loop so that the loop's progress is       *)
(*              visible.  pc orders the pieces, nothing interleaves them.  *)
(* KernelSpec : the body of the per-point loop (lines 170-203) applied to  *)
(*              a gradient tuple and a normal drawn from bounded sets.     *)
(*                                                                         *)
(* C doubles are modelled as exact rationals <<num, den>>.  All inputs are *)
(* small dyadic numbers, on which IEEE double arithmetic is exact too.     *)
(***************************************************************************)
EXTENDS Integers, FiniteSets, Sequences, TLC

VARIABLES
  VelocityArrayName,        \* this->VelocityArrayName (NULL or a name)
  WallShearRateArrayName,   \* this->WallShearRateArrayName (NULL or a name)
  pc,                       \* position of the RequestData call
  inputPointData,           \* names of the arrays in input->GetPointData()
  surfacePointData,         \* outputSurface->GetPointData(): name -> array
  velocityGradientArray,    \* local pointer, line 133
  normalsArray,             \* local pointer, line 134
  numberOfPoints,           \* local, line 136
  wallShearRateArray,       \* the vtkDoubleArray of line 138
  writes,                   \* how often SetTuple(i, .) ran for each i
  i,                        \* loop counter, line 165
  velocityGradient,         \* double velocityGradient[9]
  normal,                   \* double normal[3]
  shearRateTensor,          \* double shearRateTensor[3][3]
  wallShearRate,            \* double wallShearRate[3]
  output,                   \* output->GetPointData(): name -> array
  ret,                      \* value returned by RequestData
  errorReported,            \* text passed to vtkErrorMacro
  invoked,                  \* collaborators whose Update() was called
  refCount                  \* reference count of each heap object

vars == <<VelocityArrayName, WallShearRateArrayName, pc, inputPointData,
          surfacePointData, velocityGradientArray, normalsArray,
          numberOfPoints, wallShearRateArray, writes, i, velocityGradient,
          normal, shearRateTensor, wallShearRate, output, ret, errorReported,
          invoked, refCount>>

-----------------------------------------------------------------------------
(* Bounds *)

\* largest number of surface points of the extracted surface
MaxPoints == 2

-----------------------------------------------------------------------------
(* Exact rational arithmetic standing for double arithmetic *)

Abs(x) == IF x < 0 THEN -x ELSE x

RECURSIVE GCD(_, _)
GCD(a, b) == IF b = 0 THEN a ELSE GCD(b, a % b)

Norm(n, d) == LET g == GCD(Abs(n), d) IN <<n \div g, d \div g>>

R(n) == <<n, 1>>
Zero == R(0)
Two == R(2)
Half == <<1, 2>>

RAdd(a, b) == Norm(a[1] * b[2] + b[1] * a[2], a[2] * b[2])
RSub(a, b) == Norm(a[1] * b[2] - b[1] * a[2], a[2] * b[2])
RMul(a, b) == Norm(a[1] * b[1], a[2] * b[2])

\* a 3-vector and a 9-tuple of doubles, indexed from 0 as in the source
Vec3(a, b, c) == (0 :> R(a)) @@ (1 :> R(b)) @@ (2 :> R(c))
Tuple9(s) == [k \in 0..8 |-> R(s[k + 1])]

-----------------------------------------------------------------------------
(* The per-point kernel, lines 170-203 *)

\* ShearRateTensorOf with line 176 copied from line 175 and one index missed
ShearRateTensorCopyPaste(vg) ==
  (0 :> ((0 :> RMul(Half, RAdd(vg[0], vg[0]))) @@
         (1 :> RMul(Half, RAdd(vg[1], vg[3]))) @@
         (2 :> RMul(Half, RAdd(vg[2], vg[6]))))) @@
  (1 :> ((0 :> RMul(Half, RAdd(vg[3], vg[1]))) @@
         (1 :> RMul(Half, RAdd(vg[4], vg[4]))) @@
         (2 :> RMul(Half, RAdd(vg[5], vg[5]))))) @@
  (2 :> ((0 :> RMul(Half, RAdd(vg[6], vg[2]))) @@
         (1 :> RMul(Half, RAdd(vg[7], vg[5]))) @@
         (2 :> RMul(Half, RAdd(vg[8], vg[8])))))

\* lines 170-180: S = 0.5 * (grad u + (grad u)^T), written entry by entry
ShearRateTensorOf(vg) ==
  (0 :> ((0 :> RMul(Half, RAdd(vg[0], vg[0]))) @@
         (1 :> RMul(Half, RAdd(vg[1], vg[3]))) @@
         (2 :> RMul(Half, RAdd(vg[2], vg[6]))))) @@
  (1 :> ((0 :> RMul(Half, RAdd(vg[3], vg[1]))) @@
         (1 :> RMul(Half, RAdd(vg[4], vg[4]))) @@
         (2 :> RMul(Half, RAdd(vg[5], vg[7]))))) @@
  (2 :> ((0 :> RMul(Half, RAdd(vg[6], vg[2]))) @@
         (1 :> RMul(Half, RAdd(vg[7], vg[5]))) @@
         (2 :> RMul(Half, RAdd(vg[8], vg[8])))))

\* NSnStep accumulating with + instead of -
NSnStepSignFlipped(acc, S, n, alpha, beta) ==
  RAdd(acc, RMul(RMul(RMul(Two, S[alpha][beta]), n[alpha]), n[beta]))

\* line 188, one pass of the body of the alpha/beta loops
NSnStep(acc, S, n, alpha, beta) ==
  RSub(acc, RMul(RMul(RMul(Two, S[alpha][beta]), n[alpha]), n[beta]))

\* lines 182-190: the alpha/beta double loop, idx = 3*alpha + beta
RECURSIVE NSnLoop(_, _, _, _)
NSnLoop(S, n, idx, acc) ==
  IF idx = 9 THEN acc
  ELSE NSnLoop(S, n, idx + 1, NSnStep(acc, S, n, idx \div 3, idx % 3))

\* line 199, one pass of the body of the k loop
NSStep(acc, S, n, j, k) == RSub(acc, RMul(RMul(Two, S[j][k]), n[k]))

\* lines 197-200: the k loop for one j
RECURSIVE NSLoop(_, _, _, _, _)
NSLoop(S, n, j, k, acc) ==
  IF k = 3 THEN acc ELSE NSLoop(S, n, j, k + 1, NSStep(acc, S, n, j, k))

\* NSAtLoopStart without line 196: nS keeps what the previous axis left in it
RECURSIVE NSNotReset(_, _, _)
NSNotReset(S, n, j) ==
  IF j = 0 THEN Zero ELSE NSLoop(S, n, j - 1, 0, NSNotReset(S, n, j - 1))

\* line 196: the value nS holds when the k loop of axis j starts
NSAtLoopStart(S, n, j) == Zero

\* lines 182-203: wallShearRate[j] = nS - nSn * normal[j]
WallShearRateOf(S, n) ==
  LET nSn == NSnLoop(S, n, 0, Zero)
  IN [j \in 0..2 |->
        RSub(NSLoop(S, n, j, 0, NSAtLoopStart(S, n, j)), RMul(nSn, n[j]))]

-----------------------------------------------------------------------------
(* Values *)

NULL == "NULL"
NoArray == [id |-> "NULL", components |-> 0, tuples |-> <<>>]
Unset == <<>>            \* a tuple slot that was allocated and not written
NoReturn == <<>>         \* RequestData has not returned
NoError == "none"

\* an array of a point-data container
Array(id, comps, tuples) == [id |-> id, components |-> comps, tuples |-> tuples]

\* array names that occur in the point data of the meshes of a pass
Names == {"Velocity", "VelocityGradient", "Normals", "WallShearRate", "WSS"}

\* names a caller passes to SetVelocityArrayName; no input mesh has a "U"
VelocityNames == {"Velocity", "U"}

\* names a caller passes to SetWallShearRateArrayName
OutputNames == {"WSS", "VelocityGradient", "Normals"}

\* point data of the input meshes a pass is run on
InputPointDataSets == {{}, {"Velocity"}, {"Velocity", "WallShearRate"}}

\* gradient tuples the gradient filter leaves on the surface points
SurfaceGradients ==
  { Tuple9(<<0, 0, 0, 0, 0, 0, 0, 0, 0>>),
    Tuple9(<<0, 1, 0, 1, 0, 0, 0, 0, 0>>),
    Tuple9(<<1, 2, 0, 0, -1, 0, 3, 0, 1>>) }

\* normals the normals filter leaves on the surface points
SurfaceNormals == { Vec3(0, 0, 1), Vec3(0, -1, 0), Vec3(1, 0, 0) }

EmptyPointData == [nm \in Names |-> NoArray]

\* heap objects created by RequestData
Collaborators == {"gradientFilter", "geometryFilter", "normalsFilter"}
Objects == Collaborators \cup {"wallShearRateArray"}

\* lines 116, 124: the filter whose output port a filter is connected to
Upstream == ("normalsFilter" :> "geometryFilter") @@
            ("geometryFilter" :> "gradientFilter")

\* vtkObject::Register
Register(rc, o) == [rc EXCEPT ![o] = @ + 1]

\* vtkObject::UnRegister / Delete: an object whose count reaches zero is
\* destroyed and gives up the reference it holds on its upstream filter
RECURSIVE UnRegister(_, _)
UnRegister(rc, o) ==
  LET rc1 == [rc EXCEPT ![o] = @ - 1]
  IN IF rc1[o] = 0 /\ o \in DOMAIN Upstream
       THEN UnRegister(rc1, Upstream[o])
       ELSE rc1

\* values RequestData returns
ReturnNoVelocityName == 1       \* line 86
ReturnMissingArray == 1         \* line 94
ReturnSuccess == 1              \* line 214

VelocityNameError == "VelocityArrayName not specified"
MissingArrayError == "VelocityArray with name specified does not exist"

\* WallShearRateNameOf ignoring the configured name
DefaultNameAlways(configured) == "WallShearRate"

\* lines 139-146: the name given to the new array
WallShearRateNameOf(configured) ==
  IF configured # NULL THEN configured ELSE "WallShearRate"

\* line 148: SetNumberOfTuples(numberOfPoints), storage not yet written
AllocatedTuples(n) == [k \in 0..(n - 1) |-> Unset]

\* LoopContinues stopping one point early
LoopStopsEarly(idx, n) == idx < n - 1

\* line 165: the loop condition
LoopContinues(idx, n) == idx < n

\* vtkFieldData::AddArray, line 208: an array of the same name is replaced
AddArray(pd, arr) == [pd EXCEPT ![arr.id] = arr]

-----------------------------------------------------------------------------
(* State after construction, lines 41-48 *)

Locals0 ==
  /\ velocityGradient = Unset
  /\ normal = Unset
  /\ shearRateTensor = Unset
  /\ wallShearRate = Unset

Pass0 ==
  /\ inputPointData = {}
  /\ surfacePointData = EmptyPointData
  /\ velocityGradientArray = NoArray
  /\ normalsArray = NoArray
  /\ numberOfPoints = 0
  /\ wallShearRateArray = NoArray
  /\ writes = <<>>
  /\ i = 0
  /\ output = EmptyPointData
  /\ ret = NoReturn
  /\ errorReported = NoError
  /\ invoked = {}
  /\ refCount = [o \in Objects |-> 0]

Init ==
  /\ VelocityArrayName = NULL
  /\ WallShearRateArrayName = NULL
  /\ pc = "idle"
  /\ Locals0
  /\ Pass0

passVars == <<inputPointData, surfacePointData, velocityGradientArray,
              normalsArray, numberOfPoints, wallShearRateArray, writes, i,
              output, ret, errorReported, invoked, refCount>>
localVars == <<velocityGradient, normal, shearRateTensor, wallShearRate>>

-----------------------------------------------------------------------------
(* Configuration, vtkSetStringMacro in the header *)

SetVelocityArrayName ==
  /\ pc = "idle"
  /\ \E nm \in VelocityNames \cup {NULL} : VelocityArrayName' = nm
  /\ UNCHANGED <<WallShearRateArrayName, pc, passVars, localVars>>

SetWallShearRateArrayName ==
  /\ pc = "idle"
  /\ \E nm \in OutputNames \cup {NULL} : WallShearRateArrayName' = nm
  /\ UNCHANGED <<VelocityArrayName, pc, passVars, localVars>>

-----------------------------------------------------------------------------
(* Collaborators, as RequestData uses them *)

\* the input mesh's point arrays; their values play no part in the pass
InputArrays(names) ==
  [nm \in Names |-> IF nm \in names THEN Array(nm, 3, <<>>) ELSE NoArray]

\* vtkvmtkUnstructuredGridGradientFilter: passes the input's point data and,
\* unless it fails, adds the gradient array under the name given at line 106
GradientFilterOutput(pd, gradArr) ==
  IF gradArr = NoArray THEN pd ELSE AddArray(pd, gradArr)

\* vtkPolyDataNormals: passes the surface's point data and, unless it fails,
\* adds the point normals
NormalsFilterOutput(pd, normArr) ==
  IF normArr = NoArray THEN pd ELSE AddArray(pd, normArr)

\* the arrays a collaborator can leave on a surface of n points: none (the
\* collaborator failed) or one tuple per point
PossibleArrays(id, comps, n, samples) ==
  {NoArray} \cup {Array(id, comps, t) : t \in [0..(n - 1) -> samples]}

-----------------------------------------------------------------------------
(* RequestData, lines 70-215 *)

\* lines 83-87: no velocity array name
RequestDataNoName ==
  /\ pc = "idle"
  /\ VelocityArrayName = NULL
  /\ \E names \in InputPointDataSets : inputPointData' = names
  /\ errorReported' = VelocityNameError
  /\ ret' = <<ReturnNoVelocityName>>
  /\ pc' = "done"
  /\ UNCHANGED <<VelocityArrayName, WallShearRateArrayName, surfacePointData,
                 velocityGradientArray, normalsArray, numberOfPoints,
                 wallShearRateArray, writes, i, output, invoked, refCount,
                 localVars>>

\* lines 89-95: the named velocity array is not in the input's point data
RequestDataMissingArray ==
  /\ pc = "idle"
  /\ VelocityArrayName # NULL
  /\ \E names \in InputPointDataSets :
       /\ VelocityArrayName \notin names
       /\ inputPointData' = names
  /\ errorReported' = MissingArrayError
  /\ ret' = <<ReturnMissingArray>>
  /\ pc' = "done"
  /\ UNCHANGED <<VelocityArrayName, WallShearRateArrayName, surfacePointData,
                 velocityGradientArray, normalsArray, numberOfPoints,
                 wallShearRateArray, writes, i, output, invoked, refCount,
                 localVars>>

\* lines 97-148: run the three filters, fetch the arrays, allocate the result
RequestDataPrepare ==
  /\ pc = "idle"
  /\ VelocityArrayName # NULL
  /\ \E names \in InputPointDataSets, n \in 0..MaxPoints :
       /\ VelocityArrayName \in names
       /\ inputPointData' = names
       /\ \E gradArr \in PossibleArrays("VelocityGradient", 9, n, SurfaceGradients),
             normArr \in PossibleArrays("Normals", 3, n, SurfaceNormals) :
            /\ surfacePointData' =
                 NormalsFilterOutput(
                   GradientFilterOutput(InputArrays(names), gradArr), normArr)
            /\ velocityGradientArray' = surfacePointData'["VelocityGradient"]
            /\ normalsArray' = surfacePointData'["Normals"]
       /\ numberOfPoints' = n
       /\ wallShearRateArray' =
            Array(WallShearRateNameOf(WallShearRateArrayName), 3,
                  AllocatedTuples(n))
       /\ writes' = [k \in 0..(n - 1) |-> 0]
  /\ invoked' = {"gradientFilter", "geometryFilter", "normalsFilter"}
  /\ refCount' =
       Register(
         Register(
           Register(
             Register(
               Register(Register(refCount, "gradientFilter"),   \* line 99
                        "geometryFilter"),                      \* line 112
               "gradientFilter"),                               \* line 116
             "normalsFilter"),                                  \* line 120
           "geometryFilter"),                                   \* line 124
         "wallShearRateArray")                                  \* line 138
  /\ i' = 0
  /\ pc' = "loop"
  /\ UNCHANGED <<VelocityArrayName, WallShearRateArrayName, output, ret,
                 errorReported, localVars>>

\* lines 170-204: the loop body once both tuples are in the local buffers
LoopBody(g, n) ==
  /\ velocityGradient' = g
  /\ normal' = n
  /\ shearRateTensor' = ShearRateTensorOf(g)
  /\ wallShearRate' = WallShearRateOf(ShearRateTensorOf(g), n)
  /\ wallShearRateArray' =
       [wallShearRateArray EXCEPT !.tuples[i] = wallShearRate']
  /\ writes' = [writes EXCEPT ![i] = @ + 1]
  /\ i' = i + 1
  /\ UNCHANGED <<VelocityArrayName, WallShearRateArrayName, pc,
                 inputPointData, surfacePointData, velocityGradientArray,
                 normalsArray, numberOfPoints, output, ret, errorReported,
                 invoked, refCount>>

\* lines 165-205: one iteration, both arrays present
LoopIteration ==
  /\ pc = "loop"
  /\ LoopContinues(i, numberOfPoints)
  /\ velocityGradientArray # NoArray
  /\ normalsArray # NoArray
  /\ LoopBody(velocityGradientArray.tuples[i], normalsArray.tuples[i])

\* lines 167-168: GetTuple through a null pointer.  The behaviour is
\* undefined: the process dies, or the buffer is left with some value.
LoopNullDereference ==
  /\ pc = "loop"
  /\ LoopContinues(i, numberOfPoints)
  /\ velocityGradientArray = NoArray \/ normalsArray = NoArray
  /\ \/ /\ pc' = "crashed"
        /\ UNCHANGED <<VelocityArrayName, WallShearRateArrayName,
                       passVars, localVars>>
     \/ \E g \in (IF velocityGradientArray = NoArray THEN SurfaceGradients
                  ELSE {velocityGradientArray.tuples[i]}),
           n \in (IF normalsArray = NoArray THEN SurfaceNormals
                  ELSE {normalsArray.tuples[i]}) :
          LoopBody(g, n)

\* lines 207-214: copy the surface, attach the array, release, return
RequestDataFinish ==
  /\ pc = "loop"
  /\ ~LoopContinues(i, numberOfPoints)
  /\ output' = AddArray(surfacePointData, wallShearRateArray)
  /\ refCount' =
       UnRegister(
         UnRegister(
           UnRegister(Register(refCount, "wallShearRateArray"), \* line 208
                      "wallShearRateArray"),                    \* line 210
           "geometryFilter"),                                   \* line 211
         "normalsFilter")                                       \* line 212
  /\ ret' = <<ReturnSuccess>>
  /\ pc' = "done"
  /\ UNCHANGED <<VelocityArrayName, WallShearRateArrayName, inputPointData,
                 surfacePointData, velocityGradientArray, normalsArray,
                 numberOfPoints, wallShearRateArray, writes, i,
                 errorReported, invoked, localVars>>

Next ==
  \/ SetVelocityArrayName
  \/ SetWallShearRateArrayName
  \/ RequestDataNoName
  \/ RequestDataMissingArray
  \/ RequestDataPrepare
  \/ LoopIteration
  \/ LoopNullDereference
  \/ RequestDataFinish

Spec == Init /\ [][Next]_vars

-----------------------------------------------------------------------------
(* The loop body alone, on a wider range of tuples *)

KernelValues == {R(-1), R(0), R(1)}

\* gradient tuples: any entry may differ from its transposed entry
KernelGradients ==
  {g \in [0..8 -> KernelValues] :
     \A k \in {0, 3, 4, 6, 7, 8} : g[k] # R(-1)}

\* normals: the axis directions, the zero vector and vectors not of length 1
KernelNormals == [0..2 -> KernelValues]

InitKernel ==
  /\ VelocityArrayName = NULL
  /\ WallShearRateArrayName = NULL
  /\ pc = "kernel"
  /\ velocityGradient \in KernelGradients
  /\ normal \in KernelNormals
  /\ shearRateTensor = Unset
  /\ wallShearRate = Unset
  /\ Pass0

\* lines 170-203 on the tuples held in velocityGradient and normal
KernelApply ==
  /\ pc = "kernel"
  /\ shearRateTensor' = ShearRateTensorOf(velocityGradient)
  /\ wallShearRate' = WallShearRateOf(shearRateTensor', normal)
  /\ pc' = "kernelDone"
  /\ UNCHANGED <<VelocityArrayName, WallShearRateArrayName, passVars,
                 velocityGradient, normal>>

NextKernel == KernelApply

KernelSpec == InitKernel /\ [][NextKernel]_vars

-----------------------------------------------------------------------------
(* Properties *)

RECURSIVE RSum(_, _)
\* the sum of f[x] over x in D
RSum(f, D) ==
  IF D = {} THEN Zero
  ELSE LET x == CHOOSE y \in D : TRUE IN RAdd(f[x], RSum(f, D \ {x}))

Axes == 0..2
ZeroVec == [j \in Axes |-> Zero]

\* n . S . n and (S . n)[j], written as sums
Contraction(S, n) ==
  RSum([ab \in Axes \X Axes |->
          RMul(RMul(S[ab[1]][ab[2]], n[ab[1]]), n[ab[2]])], Axes \X Axes)
RowDot(S, n, j) == RSum([k \in Axes |-> RMul(S[j][k], n[k])], Axes)
Dot(u, v) == RSum([k \in Axes |-> RMul(u[k], v[k])], Axes)

IsUnit(n) == Dot(n, n) = R(1)

Succeeded == pc = "done" /\ errorReported = NoError

\* a collaborator has run and left no gradient array or no normals
CollaboratorFailed ==
  /\ invoked # {}
  /\ velocityGradientArray = NoArray \/ normalsArray = NoArray

\* C1: a pass with no velocity array name reports the error, returns a code
\* other than the one a successful pass returns, runs no collaborator and
\* leaves the output without any array.
C1_NoNameFailsWithDistinctCode ==
  (pc = "done" /\ VelocityArrayName = NULL) =>
     /\ errorReported = VelocityNameError
     /\ ret # <<ReturnSuccess>>
     /\ invoked = {}
     /\ output = EmptyPointData

\* C2: a pass whose velocity array name is not in the input's point data
\* reports the error, returns a code other than the success code, runs no
\* collaborator and leaves the output without any array.
C2_MissingArrayFailsWithDistinctCode ==
  (pc = "done" /\ VelocityArrayName # NULL
     /\ VelocityArrayName \notin inputPointData) =>
     /\ errorReported = MissingArrayError
     /\ ret # <<ReturnSuccess>>
     /\ invoked = {}
     /\ output = EmptyPointData

\* C3: the vector written is tau[j] = 2 * ((S.n)[j] - (n.S.n) * n[j]), with
\* S the symmetrized gradient, with this sign and this factor.
C3_MatchesReferenceFormula ==
  pc = "kernelDone" =>
    \A j \in Axes :
      wallShearRate[j] =
        RMul(Two, RSub(RowDot(shearRateTensor, normal, j),
                       RMul(Contraction(shearRateTensor, normal), normal[j])))

\* C4: for a normal of length 1 the vector written is tangential:
\* the sum of tau[j] * n[j] over the axes is 0.
C4_Tangential ==
  (pc = "kernelDone" /\ IsUnit(normal)) => Dot(wallShearRate, normal) = Zero

C4_Witness ==
  pc = "kernelDone" /\ IsUnit(normal) /\ wallShearRate # ZeroVec
  /\ Contraction(shearRateTensor, normal) # Zero

\* C8: S[a][b] = S[b][a] = 0.5 * (g[3a+b] + g[3b+a]) for every a, b, and
\* a gradient that is symmetric already is returned unchanged.
C8_Symmetrizer ==
  pc = "kernelDone" =>
    /\ \A a, b \in Axes :
         /\ shearRateTensor[a][b] = shearRateTensor[b][a]
         /\ shearRateTensor[a][b] =
              RMul(Half, RAdd(velocityGradient[3 * a + b],
                              velocityGradient[3 * b + a]))
    /\ (\A a, b \in Axes :
           velocityGradient[3 * a + b] = velocityGradient[3 * b + a])
         => \A a, b \in Axes :
              shearRateTensor[a][b] = velocityGradient[3 * a + b]

C8_Witness ==
  /\ pc = "kernelDone"
  /\ velocityGradient[5] # velocityGradient[7]
  /\ velocityGradient[1] # velocityGradient[3]
  /\ shearRateTensor[1][2] # Zero

PureShear == Tuple9(<<0, 1, 0, 1, 0, 0, 0, 0, 0>>)

C5_OneTuplePerPoint ==
  /\ pc = "loop" =>
       /\ wallShearRateArray.components = 3
       /\ DOMAIN wallShearRateArray.tuples = 0..(numberOfPoints - 1)
       /\ \A k \in 0..(numberOfPoints - 1) :
            writes[k] = IF k < i THEN 1 ELSE 0
  /\ Succeeded =>
       LET res == output[WallShearRateNameOf(WallShearRateArrayName)]
       IN /\ res.components = 3
          /\ DOMAIN res.tuples = 0..(numberOfPoints - 1)
          /\ \A k \in 0..(numberOfPoints - 1) :
               /\ writes[k] = 1
               /\ DOMAIN res.tuples[k] = Axes
               /\ ~CollaboratorFailed =>
                    res.tuples[k] =
                      WallShearRateOf(
                        ShearRateTensorOf(velocityGradientArray.tuples[k]),
                        normalsArray.tuples[k])

C5_Witness ==
  /\ Succeeded
  /\ WallShearRateArrayName = NULL
  /\ ~CollaboratorFailed
  /\ numberOfPoints = 2
  /\ velocityGradientArray.tuples[0] # velocityGradientArray.tuples[1]
  /\ normalsArray.tuples[0] # normalsArray.tuples[1]
  /\ output["WallShearRate"].tuples[0] # output["WallShearRate"].tuples[1]
  /\ output["WallShearRate"].tuples[0] # ZeroVec

\* C6: after a successful pass the output holds every point array of the
\* normals filter's output and the new array, under the configured name or
\* under "WallShearRate"; an array that had that name is replaced by it.
C6_OutputArrays ==
  Succeeded =>
    LET nm == IF WallShearRateArrayName # NULL THEN WallShearRateArrayName
              ELSE "WallShearRate"
    IN /\ output[nm] = wallShearRateArray
       /\ output[nm].id = nm
       /\ output[nm].components = 3
       /\ \A other \in Names \ {nm} : output[other] = surfacePointData[other]
       /\ Cardinality({a \in Names : output[a] # NoArray /\ output[a].id = nm}) = 1

C6_Witness ==
  /\ Succeeded
  /\ WallShearRateArrayName = "VelocityGradient"
  /\ surfacePointData["VelocityGradient"] # NoArray
  /\ surfacePointData["VelocityGradient"].components = 9
  /\ surfacePointData["Normals"] # NoArray
  /\ numberOfPoints > 0

\* C7: when a collaborator leaves no gradient array or no normals, the pass
\* stops before the loop: no tuple is read or written, the process does not
\* die, the result is not the success code and the output gets no array.
C7_CollaboratorFailureAborts ==
  CollaboratorFailed =>
     /\ pc # "crashed"
     /\ i = 0
     /\ velocityGradient = Unset /\ normal = Unset
     /\ pc = "done" => (ret # <<ReturnSuccess>> /\ output = EmptyPointData)

\* C9: when RequestData has returned, none of the three filters it created
\* is still referenced; only the result array lives on, held by the output.
C9_NoCollaboratorLeaked ==
  pc = "done" =>
     /\ \A o \in Collaborators : refCount[o] = 0
     /\ refCount["wallShearRateArray"] = IF Succeeded THEN 1 ELSE 0

====
